---- MODULE Spec2Model ----
(***************************************************************************)
(* A model of src/main.py of fin-doc-qa: the ConversationMemory class, the *)
(* answer matcher, the response parser, the EvaluationResults accumulator  *)
(* and the evaluator's run (main -> evaluate -> evaluate_dialogue ->       *)
(* process_dialogue).                                                      *)
(*                                                                         *)
(* Representation.  A Python str is a sequence of chunks (TLA+ strings);   *)
(* the empty str is << >>.  An answer text is a sequence of one-character  *)
(* chunks.  An Optional[str] is a record [some, v].  A function that may   *)
(* raise returns a record whose field "raised" names the exception ("" for *)
(* a normal return).                                                       *)
(***************************************************************************)
EXTENDS Integers, Sequences, FiniteSets, TLC

VARIABLES
    pc,             \* where the process (or the unit harness) stands
    api_key_set,    \* "OPENAI_API_KEY" in os.environ
    prompt_file,    \* system_prompt.txt exists beside main.py
    data,           \* the dataset: the list load_data returns
    dialogues,      \* evaluate: the dict group_by_dialogue returned, in key order
    dialogue_ids,   \* evaluate: the selected dialogue ids
    k,              \* evaluate: position of the for loop in dialogue_ids
    questions,      \* evaluate_dialogue: the questions of the current dialogue
    gold_answers,   \* evaluate_dialogue: its gold answers
    i,              \* process_dialogue: turns completed in the current dialogue
    memory,         \* the ConversationMemory instance
    responses,      \* process_dialogue: the response list
    results,        \* evaluate: the EvaluationResults instance
    exc,            \* the exception that ended the run ("" while none has)
    prompt_loads,   \* history: calls of load_system_prompt so far
    requests,       \* history: the message lists sent to the LLM, this dialogue
    outcomes,       \* history: what the LLM call did on each turn, this dialogue
    log,            \* unit harness: the calls made on the memory object
    ret,            \* unit harness: what the last call returned
    pred,           \* unit harness: answers_match's first argument
    gold,           \* unit harness: answers_match's second argument
    matched         \* unit harness: answers_match's result ("" before the call)

vars == <<pc, api_key_set, prompt_file, data, dialogues, dialogue_ids, k,
          questions, gold_answers, i, memory, responses, results, exc,
          prompt_loads, requests, outcomes, log, ret, pred, gold, matched>>

runVars == <<api_key_set, prompt_file, data, dialogues, dialogue_ids, k,
             questions, gold_answers, i, responses, results, exc,
             prompt_loads, requests, outcomes>>

(***************************************************************************)
(* Bounds of the model.                                                    *)
(***************************************************************************)
MaxRecords == 3     \* records in the dataset
MaxTurnInd == 1     \* turn indices run over 0..MaxTurnInd
MaxOps == 3         \* mutating calls the unit harness makes on one memory
MaxGroupTurnInd == 2 \* turn indices of the unit harness of group_by_dialogue

(***************************************************************************)
(* Python values.                                                          *)
(***************************************************************************)
NoneV == [some |-> FALSE, v |-> << >>]
Some(t) == [some |-> TRUE, v |-> t]

\* Python's truth value of an Optional[str]: None and "" are false.
Truthy(o) == o.some /\ o.v # << >>

Min(a, b) == IF a <= b THEN a ELSE b
Abs(a) == IF a >= 0 THEN a ELSE -a

\* the chunks of s that are not in drop, in order (str.replace(c, "") for c in drop)
SelectChunks(s, drop) == SelectSeq(s, LAMBDA c : c \notin drop)

(***************************************************************************)
(* class ConversationMemory                                                *)
(***************************************************************************)
ValidRoles == {"user", "assistant", "system"}

ConversationMemory(prompt) == [messages |-> << >>, system_prompt |-> prompt]

set_system_prompt(self, prompt) == [self EXCEPT !.system_prompt = Some(prompt)]

add_message_any_role(self, role, content) ==
    [raised |-> "",
     self |-> [self EXCEPT !.messages = Append(@, [role |-> role, content |-> content])]]

add_message(self, role, content) ==
    IF role \notin ValidRoles
    THEN [raised |-> "ValueError", self |-> self]
    ELSE [raised |-> "",
          self |-> [self EXCEPT !.messages = Append(@, [role |-> role, content |-> content])]]

add_user_message(self, message) == add_message(self, "user", message)

add_assistant_message(self, message) == add_message(self, "assistant", message)

get_conversation_history_prompt_last(self) ==
    self.messages \o
    (IF Truthy(self.system_prompt)
     THEN <<[role |-> "system", content |-> self.system_prompt.v]>>
     ELSE << >>)

get_conversation_history_is_not_none(self) ==
    (IF self.system_prompt.some
     THEN <<[role |-> "system", content |-> self.system_prompt.v]>>
     ELSE << >>) \o self.messages

get_conversation_history(self) ==
    (IF Truthy(self.system_prompt)
     THEN <<[role |-> "system", content |-> self.system_prompt.v]>>
     ELSE << >>) \o self.messages

clear_keeps_prompt(self) == [self EXCEPT !.messages = << >>]

clear(self) == [messages |-> << >>, system_prompt |-> NoneV]

len_without_system_role(self) == Len(SelectSeq(self.messages, LAMBDA m : m.role # "system"))

__len__(self) == Len(self.messages)

(***************************************************************************)
(* Answer comparison.  A number is held in fixed point with FracDigits     *)
(* fractional digits (exact for every answer text of the model); a         *)
(* tolerance 1e-n is held as its exponent n.                               *)
(***************************************************************************)
FracDigits == 2

relative_tolerance == 3      \* Config.relative_tolerance = 1e-3
absolute_tolerance == 4      \* Config.absolute_tolerance = 1e-4
RelFloorExp == 10            \* the 1e-10 of max(abs(gold_num), 1e-10)

RECURSIVE Pow10(_)
Pow10(n) == IF n = 0 THEN 1 ELSE 10 * Pow10(n - 1)

Scale == Pow10(FracDigits)

RECURSIVE Pow10Leq(_, _, _)
\* a * 10^e <= b, for a, b >= 0, without forming a * 10^e
Pow10Leq(a, b, e) ==
    IF e = 0 THEN a <= b
    ELSE IF a > b THEN FALSE
    ELSE Pow10Leq(a * 10, b, e - 1)

RECURSIVE Pow10Geq(_, _, _)
\* a * 10^e >= b, for a, b >= 0, without forming a * 10^e
Pow10Geq(a, b, e) ==
    IF a >= b THEN TRUE
    ELSE IF e = 0 THEN FALSE
    ELSE Pow10Geq(a * 10, b, e - 1)

Digits == {"0", "1", "2", "3", "4", "5", "6", "7", "8", "9"}
DigitVal == "0" :> 0 @@ "1" :> 1 @@ "2" :> 2 @@ "3" :> 3 @@ "4" :> 4 @@
            "5" :> 5 @@ "6" :> 6 @@ "7" :> 7 @@ "8" :> 8 @@ "9" :> 9
Whitespace == {" ", "\n"}

RECURSIVE LStrip(_)
LStrip(s) == IF s # << >> /\ Head(s) \in Whitespace THEN LStrip(Tail(s)) ELSE s

RECURSIVE RStrip(_)
RStrip(s) ==
    IF s # << >> /\ s[Len(s)] \in Whitespace THEN RStrip(SubSeq(s, 1, Len(s) - 1)) ELSE s

\* str.strip()
Strip(s) == RStrip(LStrip(s))

\* str.lower(), on the letters the model's texts hold
Lower(s) == [j \in 1..Len(s) |-> IF s[j] = "A" THEN "a" ELSE s[j]]

RECURSIVE DigitsValue(_)
\* the number a sequence of digits writes
DigitsValue(s) ==
    IF s = << >> THEN 0 ELSE 10 * DigitsValue(SubSeq(s, 1, Len(s) - 1)) + DigitVal[s[Len(s)]]

RECURSIVE PadRight(_, _)
PadRight(s, n) == IF Len(s) >= n THEN SubSeq(s, 1, n) ELSE PadRight(Append(s, "0"), n)

AllDigits(s) == \A j \in 1..Len(s) : s[j] \in Digits

Negate(n, negative) == IF negative THEN -n ELSE n

\* the float an integer part ip and a fractional part fp write, in units of
\* 10^-FracDigits: [raised, value]
MakeFloat(ip, fp, negative) ==
    IF AllDigits(ip) /\ AllDigits(fp) /\ Len(ip) + Len(fp) >= 1
    THEN [raised |-> "",
          value |-> Negate(DigitsValue(ip) * Scale + DigitsValue(PadRight(fp, FracDigits)),
                           negative)]
    ELSE [raised |-> "ValueError", value |-> 0]

\* the position of the first "." of body, Len(body) + 1 when it has none
DotIndex(body) ==
    IF \E j \in 1..Len(body) : body[j] = "."
    THEN CHOOSE j \in 1..Len(body) : body[j] = "." /\ \A m \in 1..(j - 1) : body[m] # "."
    ELSE Len(body) + 1

SplitAtDot(body, dot, negative) ==
    MakeFloat(SubSeq(body, 1, dot - 1), SubSeq(body, dot + 1, Len(body)), negative)

ParseDecimal(body, negative) == SplitAtDot(body, DotIndex(body), negative)

ParseSigned(t) ==
    IF t # << >> /\ Head(t) \in {"-", "+"}
    THEN ParseDecimal(Tail(t), Head(t) = "-")
    ELSE ParseDecimal(t, FALSE)

\* float(s) for a decimal literal [+-]digits[.digits], surrounding whitespace allowed
ParseFloat(s) == ParseSigned(Strip(s))

FloatOrZero(f) == IF f.raised = "" THEN f.value ELSE 0

normalize_answer(x) ==
    IF ~x.some THEN 0
    ELSE FloatOrZero(ParseFloat(SelectChunks(Lower(Strip(x.v)), {" ", "$", "%"})))

\* rel_diff <= 10^-rel_tol, where rel_diff = abs_diff / max(abs(gold_num), 1e-10)
rel_diff_within(abs_diff, gold_abs, rel_tol) ==
    IF Pow10Geq(gold_abs, Scale, RelFloorExp)
    THEN Pow10Leq(abs_diff, gold_abs, rel_tol)
    ELSE Pow10Leq(abs_diff, Scale, rel_tol + RelFloorExp)

\* abs_diff <= 10^-abs_tol
abs_diff_within(abs_diff, abs_tol) == Pow10Leq(abs_diff, Scale, abs_tol)

match_both(pred_num, gold_num, rel_tol, abs_tol) ==
    /\ abs_diff_within(Abs(pred_num - gold_num), abs_tol)
    /\ rel_diff_within(Abs(pred_num - gold_num), Abs(gold_num), rel_tol)

match_either(pred_num, gold_num, rel_tol, abs_tol) ==
    \/ abs_diff_within(Abs(pred_num - gold_num), abs_tol)
    \/ rel_diff_within(Abs(pred_num - gold_num), Abs(gold_num), rel_tol)

answers_match_and(p, g, rel_tol, abs_tol) ==
    match_both(normalize_answer(p), normalize_answer(g), rel_tol, abs_tol)

answers_match(p, g, rel_tol, abs_tol) ==
    match_either(normalize_answer(p), normalize_answer(g), rel_tol, abs_tol)

(***************************************************************************)
(* Response parsing.  A JSON value is [type, has_error, err, has_answer,   *)
(* answer]: for an object, has_error / has_answer say whether the keys     *)
(* "error" / "answer" are present and err / answer hold their values; for  *)
(* a string, has_error says whether it contains the text "error".  JsonDoc *)
(* is json.loads on the JSON documents of the model; any other text is not *)
(* valid JSON.                                                             *)
(***************************************************************************)
JsonValue(type, has_error, err, has_answer, answer) ==
    [type |-> type, has_error |-> has_error, err |-> err,
     has_answer |-> has_answer, answer |-> answer]

JsonDoc ==
    "{\"answer\": 100.0}" :>
        JsonValue("object", FALSE, << >>, TRUE, Some(<<"1", "0", "0", ".", "0">>)) @@
    "{\"answer\": \"7\"}" :>
        JsonValue("object", FALSE, << >>, TRUE, Some(<<"7">>)) @@
    "{\"error\": \"n/a\", \"answer\": 7}" :>
        JsonValue("object", TRUE, <<"n/a">>, TRUE, Some(<<"7">>)) @@
    "42" :>
        JsonValue("number", FALSE, << >>, FALSE, NoneV) @@
    "\"error\"" :>
        JsonValue("string", TRUE, << >>, FALSE, NoneV)

json_loads_stripped(t) ==
    IF Len(t) = 1 /\ t[1] \in DOMAIN JsonDoc
    THEN [raised |-> "", value |-> JsonDoc[t[1]]]
    ELSE [raised |-> "JSONDecodeError", value |-> JsonValue("", FALSE, << >>, FALSE, NoneV)]

\* json.loads skips the whitespace around the document
json_loads(s) == json_loads_stripped(Strip(s))

\* The markdown fence (three backquotes, which a TLA+ string cannot hold) and the
\* opening fence tagged json, each one chunk of a text.
Fence == "~~~"
FenceJson == "~~~json"

\* if cleaned.startswith(fence + "json"): cleaned = cleaned[7:]
strip_json_fence(cleaned) ==
    IF cleaned # << >> /\ Head(cleaned) = FenceJson THEN Tail(cleaned) ELSE cleaned

\* if cleaned.startswith(fence): cleaned = cleaned[3:]
strip_opening_fence(cleaned) ==
    IF cleaned # << >> /\ Head(cleaned) = Fence THEN Tail(cleaned) ELSE cleaned

\* if cleaned.endswith(fence): cleaned = cleaned[:-3]
strip_closing_fence(cleaned) ==
    IF cleaned # << >> /\ cleaned[Len(cleaned)] = Fence
    THEN SubSeq(cleaned, 1, Len(cleaned) - 1)
    ELSE cleaned

\* except json.JSONDecodeError: raise JSONParsingError
as_parsing_error(r) ==
    [raised |-> IF r.raised = "" THEN "" ELSE "JSONParsingError", value |-> r.value]

parse_llm_response(response_text) ==
    as_parsing_error(json_loads(Strip(
        strip_closing_fence(strip_opening_fence(strip_json_fence(Strip(response_text)))))))

(***************************************************************************)
(* class EvaluationResults.  An accuracy correct / total is held as the    *)
(* fraction [num, den]; 0.0 is [num |-> 0, den |-> 1].                     *)
(***************************************************************************)
Fraction(num, den) == IF den > 0 THEN [num |-> num, den |-> den] ELSE [num |-> 0, den |-> 1]

EvaluationResults ==
    [total_correct |-> 0, total_questions |-> 0, total_errors |-> 0,
     dialogue_results |-> << >>]

accuracy(self) == Fraction(self.total_correct, self.total_questions)

add_dialogue_result_drops_errors(self, dialogue_id, correct, total, errors) ==
    [total_correct |-> self.total_correct + correct,
     total_questions |-> self.total_questions + total,
     total_errors |-> self.total_errors,
     dialogue_results |-> Append(self.dialogue_results,
        [dialogue_id |-> dialogue_id, correct |-> correct, total |-> total,
         errors |-> errors, accuracy |-> Fraction(correct, total)])]

add_dialogue_result(self, dialogue_id, correct, total, errors) ==
    [total_correct |-> self.total_correct + correct,
     total_questions |-> self.total_questions + total,
     total_errors |-> self.total_errors + errors,
     dialogue_results |-> Append(self.dialogue_results,
        [dialogue_id |-> dialogue_id, correct |-> correct, total |-> total,
         errors |-> errors, accuracy |-> Fraction(correct, total)])]

(***************************************************************************)
(* class DialogueProcessor.  A record of the dataset is [id, turn_ind,     *)
(* dialogue_break, exe_ans, amt_table] (the annotation block flattened);   *)
(* an id is the list of its parts between "_", each a sequence of          *)
(* characters.                                                             *)
(***************************************************************************)
isdigit(part) == part # << >> /\ \A j \in 1..Len(part) : part[j] \in Digits

\* the id without its last part when that part is all digits (parts[:-1], joined)
extract_dialogue_id(full_id) ==
    IF isdigit(full_id[Len(full_id)]) THEN SubSeq(full_id, 1, Len(full_id) - 1) ELSE full_id

RECURSIVE FirstOccurrences(_, _)
\* the distinct elements of s, each at its first occurrence
FirstOccurrences(s, seen) ==
    IF s = << >> THEN << >>
    ELSE (IF Head(s) \in seen THEN << >> ELSE <<Head(s)>>)
         \o FirstOccurrences(Tail(s), seen \cup {Head(s)})

RECURSIVE InsertByTurn(_, _)
\* r put into the sorted list s after every record whose turn_ind is <= r's
InsertByTurn(s, r) ==
    IF s = << >> THEN <<r>>
    ELSE IF Head(s).turn_ind <= r.turn_ind THEN <<Head(s)>> \o InsertByTurn(Tail(s), r)
    ELSE <<r>> \o s

RECURSIVE SortByTurn(_)
\* list.sort(key = turn_ind): stable, ascending
SortByTurn(s) ==
    IF s = << >> THEN << >>
    ELSE InsertByTurn(SortByTurn(SubSeq(s, 1, Len(s) - 1)), s[Len(s)])

dialogue_id_list(d) == [j \in 1..Len(d) |-> extract_dialogue_id(d[j].id)]

\* the dict as the list of its items [id, turns], in the order of keys
group_items(d, keys) ==
    [j \in 1..Len(keys) |->
        [id |-> keys[j],
         turns |-> SortByTurn(SelectSeq(d, LAMBDA r : extract_dialogue_id(r.id) = keys[j]))]]

\* group_by_dialogue without the sort of each group: the turns in input order
group_by_dialogue_unsorted(d) ==
    LET keys == FirstOccurrences(dialogue_id_list(d), {})
    IN [j \in 1..Len(keys) |->
           [id |-> keys[j],
            turns |-> SelectSeq(d, LAMBDA r : extract_dialogue_id(r.id) = keys[j])]]

\* a defaultdict keeps its keys in the order of their first insertion
group_by_dialogue(d) == group_items(d, FirstOccurrences(dialogue_id_list(d), {}))

\* amt_pre_text and amt_post_text are absent from the model's records: ""
extract_document_context(turn_data) ==
    <<"Text before table:", "HTML Table:">> \o turn_data.amt_table \o <<"Text after table:">>

extract_questions_and_answers(dialogue_turns) ==
    [questions |-> [j \in 1..Len(dialogue_turns) |->
                       dialogue_turns[j].dialogue_break[dialogue_turns[j].turn_ind + 1]],
     gold_answers |-> [j \in 1..Len(dialogue_turns) |-> Some(dialogue_turns[j].exe_ans)]]

(***************************************************************************)
(* class FinancialReasoningEvaluator                                       *)
(***************************************************************************)
max_dialogues == 100         \* Config.max_dialogues

\* load_system_prompt with a missing file read as an empty template
load_system_prompt_missing_ok(file_exists) ==
    IF file_exists THEN [raised |-> "", value |-> <<"<system_prompt.txt>">>]
    ELSE [raised |-> "", value |-> << >>]

load_system_prompt(file_exists) ==
    IF file_exists THEN [raised |-> "", value |-> <<"<system_prompt.txt>">>]
    ELSE [raised |-> "FileNotFoundError", value |-> << >>]

build_system_prompt(file_exists, document_context) ==
    LET t == load_system_prompt(file_exists)
    IN [raised |-> t.raised,
        value |-> t.value \o <<"Financial Document Content:">> \o document_context
                  \o <<"I will ask you multiple questions about this document.">>]

\* the entry process_dialogue records for a failed turn: {"error": str(e)}
ErrorMarker(message) == JsonValue("object", TRUE, message, FALSE, NoneV)

\* what the LLM call of one turn does: it raises, or returns a reply text
Raises(message) == [kind |-> "raise", text |-> message]
Replies(text) == [kind |-> "reply", text |-> text]

ReplyTexts ==
    { <<"{\"answer\": 100.0}">>,
      <<FenceJson, "\n", "{\"answer\": \"7\"}", "\n", Fence>>,
      <<"{\"error\": \"n/a\", \"answer\": 7}">>,
      <<"42">>,
      <<"\"error\"">>,
      <<"not json">>,
      << >> }

LlmOutcomes == {Raises(<<"Connection error.">>)} \cup {Replies(t) : t \in ReplyTexts}

\* the except branches of the loop body (lines 485-494): both record the marker and
\* append the synthetic assistant message
turn_except(mem, resps, message) ==
    [memory |-> add_assistant_message(mem, <<"Error: ">> \o message).self,
     responses |-> Append(resps, ErrorMarker(message))]

\* after responses.append(result) and memory.add_assistant_message(response_text):
\* result.get("answer", "") raises AttributeError unless result is a dict, inside
\* the try, which except Exception catches (lines 471, 491-494)
turn_after_record(m2, r2, result) ==
    IF result.type # "object"
    THEN turn_except(m2, r2, <<"object has no attribute 'get'">>)
    ELSE [memory |-> m2, responses |-> r2]

\* lines 464-468, and except JSONParsingError (lines 485-489)
turn_after_parse(m1, resps, response_text, parsed) ==
    IF parsed.raised # ""
    THEN turn_except(m1, resps, <<"Failed to parse JSON">>)
    ELSE turn_after_record(add_assistant_message(m1, response_text).self,
                           Append(resps, parsed.value), parsed.value)

\* lines 453-464: the call raised (except Exception), the reply is empty (ValueError,
\* except Exception), or the reply goes to parse_llm_response
turn_after_call(m1, resps, outcome) ==
    IF outcome.kind = "raise" THEN turn_except(m1, resps, outcome.text)
    ELSE IF outcome.text = << >>
    THEN turn_except(m1, resps, <<"Empty response from LLM API">>)
    ELSE turn_after_parse(m1, resps, outcome.text, parse_llm_response(outcome.text))

with_request(after, messages) ==
    [memory |-> after.memory, responses |-> after.responses, request |-> messages]

\* lines 450-457: the history is read and sent
turn_send(m1, resps, outcome) ==
    with_request(turn_after_call(m1, resps, outcome), get_conversation_history(m1))

question_text(question) == <<"Question: ">> \o question \o <<"\n\nReturn only JSON:">>

\* one iteration of the for loop of process_dialogue: [memory, responses, request]
process_turn(mem, resps, question, outcome) ==
    turn_send(add_user_message(mem, question_text(question)).self, resps, outcome)

\* "error" in response: a key of a dict, a substring of a str; a number has no "in"
contains_error(response) ==
    IF response.type \in {"object", "string"}
    THEN [raised |-> "", value |-> response.has_error]
    ELSE [raised |-> "TypeError", value |-> FALSE]

\* score_pair without its else: an error entry is counted and compared as well
score_pair_counts_twice(acc, response, gold_answer) ==
    LET c == contains_error(response)
        p == IF response.has_answer THEN response.answer ELSE Some(<< >>)
        counted == IF c.value THEN [acc EXCEPT !.errors = @ + 1] ELSE acc
    IN IF c.raised # "" THEN [acc EXCEPT !.raised = c.raised]
       ELSE IF response.type # "object"
       THEN (IF c.value THEN counted ELSE [acc EXCEPT !.raised = "AttributeError"])
       ELSE IF answers_match(p, gold_answer, relative_tolerance, absolute_tolerance)
       THEN [counted EXCEPT !.correct = @ + 1]
       ELSE counted

\* the body of the for loop of evaluate_dialogue on one pair of zip(responses,
\* gold_answers): acc is [raised, correct, errors]
score_pair(acc, response, gold_answer) ==
    LET c == contains_error(response)
        p == IF response.has_answer THEN response.answer ELSE Some(<< >>)
    IN IF c.raised # "" THEN [acc EXCEPT !.raised = c.raised]
       ELSE IF c.value THEN [acc EXCEPT !.errors = @ + 1]
       \* response.get: only a dict has it
       ELSE IF response.type # "object" THEN [acc EXCEPT !.raised = "AttributeError"]
       ELSE IF answers_match(p, gold_answer, relative_tolerance, absolute_tolerance)
       THEN [acc EXCEPT !.correct = @ + 1]
       ELSE acc

RECURSIVE score_turns(_, _, _, _)
\* the for loop of evaluate_dialogue from pair j on; an exception ends it
score_turns(resps, golds, j, acc) ==
    IF j > Min(Len(resps), Len(golds)) \/ acc.raised # "" THEN acc
    ELSE score_turns(resps, golds, j + 1, score_pair(acc, resps[j], golds[j]))

\* the scoring part of evaluate_dialogue (lines 532-551)
score_dialogue(resps, golds, n_questions) ==
    LET s == score_turns(resps, golds, 1, [raised |-> "", correct |-> 0, errors |-> 0])
    IN IF s.raised = "" /\ n_questions = 0 THEN [s EXCEPT !.raised = "ZeroDivisionError"] ELSE s

(***************************************************************************)
(* The datasets of the model: every list of at most MaxRecords distinct    *)
(* records over two dialogue ids and the turn indices 0..MaxTurnInd, in    *)
(* any order (a turn index is unique within its dialogue).                 *)
(***************************************************************************)
Bases == {"a", "b"}
GoldPool == << <<"1", "0", "0", ".", "0", "5">>, <<"7">> >>

ExeAns(t) == GoldPool[(t % Len(GoldPool)) + 1]

DataRecord(b, t) ==
    [id |-> << <<b>>, <<ToString(t)>> >>,
     turn_ind |-> t,
     dialogue_break |-> [j \in 1..(MaxTurnInd + 1) |-> <<"question", b, ToString(j - 1)>>],
     exe_ans |-> ExeAns(t),
     amt_table |-> <<"<table>", b>>]

DataRecords == {DataRecord(b, t) : b \in Bases, t \in 0..MaxTurnInd}

DataSets ==
    {d \in UNION {[1..n -> DataRecords] : n \in 0..MaxRecords} :
        \A x, y \in 1..Len(d) : x # y => d[x] # d[y]}

(***************************************************************************)
(* The run: main, evaluate, evaluate_dialogue, process_dialogue.           *)
(***************************************************************************)
harnessIdle ==
    /\ log = << >> /\ ret = [op |-> "", raised |-> "", history |-> << >>, n |-> 0]
    /\ pred = << >> /\ gold = << >> /\ matched = ""

Init ==
    /\ pc = "main"
    /\ api_key_set \in BOOLEAN
    /\ prompt_file \in BOOLEAN
    /\ data \in DataSets
    /\ dialogues = << >> /\ dialogue_ids = << >> /\ k = 0
    /\ questions = << >> /\ gold_answers = << >> /\ i = 0
    /\ memory = ConversationMemory(NoneV)
    /\ responses = << >>
    /\ results = EvaluationResults
    /\ exc = "" /\ prompt_loads = 0 /\ requests = << >> /\ outcomes = << >>
    /\ harnessIdle

harnessVars == <<log, ret, pred, gold, matched>>

\* main up to the construction of the evaluator (lines 599-614)
Main ==
    /\ pc = "main"
    /\ IF api_key_set
       THEN pc' = "evaluate" /\ exc' = exc
       ELSE pc' = "raised" /\ exc' = "RuntimeError"
    /\ UNCHANGED <<api_key_set, prompt_file, data, dialogues, dialogue_ids, k, questions,
                   gold_answers, i, memory, responses, results, prompt_loads, requests,
                   outcomes, harnessVars>>

\* evaluate up to its for loop (lines 560-572)
Evaluate ==
    /\ pc = "evaluate"
    /\ LET grouped == group_by_dialogue(data)
           ids == [j \in 1..Len(grouped) |-> grouped[j].id]
       IN /\ dialogues' = grouped
          /\ dialogue_ids' = SubSeq(ids, 1, Min(Len(ids), max_dialogues))
    /\ results' = EvaluationResults
    /\ k' = 1
    /\ pc' = "dialogue"
    /\ UNCHANGED <<api_key_set, prompt_file, data, questions, gold_answers, i, memory,
                   responses, exc, prompt_loads, requests, outcomes, harnessVars>>

\* the turns of dialogue_ids[k]: dialogues[dialogue_id]
DialogueTurns(id) == (CHOOSE g \in {dialogues[j] : j \in 1..Len(dialogues)} : g.id = id).turns

\* the for loop of evaluate takes the next dialogue: evaluate_dialogue up to the call of
\* process_dialogue, and process_dialogue up to its loop (lines 575-577, 519-530, 436-441)
BeginDialogue ==
    /\ pc = "dialogue" /\ k <= Len(dialogue_ids)
    /\ LET dialogue_turns == DialogueTurns(dialogue_ids[k])
           document_context == extract_document_context(dialogue_turns[1])
           qa == extract_questions_and_answers(dialogue_turns)
           system_prompt == build_system_prompt(prompt_file, document_context)
       IN /\ questions' = qa.questions
          /\ gold_answers' = qa.gold_answers
          /\ prompt_loads' = prompt_loads + 1
          /\ IF system_prompt.raised # ""
             THEN /\ pc' = "raised" /\ exc' = system_prompt.raised
                  /\ memory' = ConversationMemory(NoneV)
             ELSE /\ pc' = "turn" /\ exc' = exc
                  /\ memory' = set_system_prompt(ConversationMemory(NoneV), system_prompt.value)
    /\ responses' = << >>
    /\ i' = 0
    /\ requests' = << >>
    /\ outcomes' = << >>
    /\ UNCHANGED <<api_key_set, prompt_file, data, dialogues, dialogue_ids, k, results,
                   harnessVars>>

\* one iteration of the for loop of process_dialogue (lines 443-496)
Turn ==
    /\ pc = "turn" /\ i < Len(questions)
    /\ \E outcome \in LlmOutcomes :
          LET t == process_turn(memory, responses, questions[i + 1], outcome)
          IN /\ memory' = t.memory
             /\ responses' = t.responses
             /\ requests' = Append(requests, t.request)
             /\ outcomes' = Append(outcomes, outcome)
    /\ i' = i + 1
    /\ UNCHANGED <<pc, api_key_set, prompt_file, data, dialogues, dialogue_ids, k, questions,
                   gold_answers, results, exc, prompt_loads, harnessVars>>

\* the end of process_dialogue (lines 498-505): the memory is cleared, the responses returned
EndDialogue ==
    /\ pc = "turn" /\ i = Len(questions)
    /\ memory' = clear(memory)
    /\ pc' = "score"
    /\ UNCHANGED <<api_key_set, prompt_file, data, dialogues, dialogue_ids, k, questions,
                   gold_answers, i, responses, results, exc, prompt_loads, requests,
                   outcomes, harnessVars>>

\* the rest of evaluate_dialogue and the add_dialogue_result of evaluate
\* (lines 532-551, 578)
ScoreDialogue ==
    /\ pc = "score"
    /\ LET s == score_dialogue(responses, gold_answers, Len(questions))
       IN IF s.raised # ""
          THEN /\ pc' = "raised" /\ exc' = s.raised
               /\ UNCHANGED <<results, k>>
          ELSE /\ results' = add_dialogue_result(results, dialogue_ids[k], s.correct,
                                                 Len(DialogueTurns(dialogue_ids[k])), s.errors)
               /\ k' = k + 1
               /\ pc' = "dialogue" /\ exc' = exc
    /\ UNCHANGED <<api_key_set, prompt_file, data, dialogues, dialogue_ids, questions,
                   gold_answers, i, memory, responses, prompt_loads, requests, outcomes,
                   harnessVars>>

\* the for loop of evaluate is over: the final results are logged (lines 580-593)
FinalResults ==
    /\ pc = "dialogue" /\ k > Len(dialogue_ids)
    /\ pc' = "done"
    /\ UNCHANGED <<api_key_set, prompt_file, data, dialogues, dialogue_ids, k, questions,
                   gold_answers, i, memory, responses, results, exc, prompt_loads, requests,
                   outcomes, harnessVars>>

Next ==
    \/ Main
    \/ Evaluate
    \/ BeginDialogue
    \/ Turn
    \/ EndDialogue
    \/ ScoreDialogue
    \/ FinalResults

Spec == Init /\ [][Next]_vars

(***************************************************************************)
(* Unit harness of ConversationMemory: a memory is constructed and then    *)
(* any sequence of at most MaxOps mutating calls is made on it, with       *)
(* get_conversation_history and len read in between.  log holds the calls  *)
(* as made (the constructor first); ret holds the last call's return.      *)
(***************************************************************************)
Roles == ValidRoles \cup {"tool"}
Contents == {<<"m1">>, <<"m2">>}
Prompts == {<< >>, <<"P1">>, <<"P2">>}

Call(op, role, content) == [op |-> op, role |-> role, content |-> content]
NoRet == [op |-> "", raised |-> "", history |-> << >>, n |-> 0]

MemInit ==
    /\ pc = "unit_memory"
    /\ \E p \in {NoneV} \cup {Some(t) : t \in Prompts} :
          /\ memory = ConversationMemory(p)
          /\ log = <<Call("__init__", IF p.some THEN "str" ELSE "None", p.v)>>
    /\ ret = NoRet
    /\ api_key_set = TRUE /\ prompt_file = TRUE /\ data = << >>
    /\ dialogues = << >> /\ dialogue_ids = << >> /\ k = 0
    /\ questions = << >> /\ gold_answers = << >> /\ i = 0
    /\ responses = << >>
    /\ results = EvaluationResults
    /\ exc = "" /\ prompt_loads = 0 /\ requests = << >> /\ outcomes = << >>
    /\ pred = << >> /\ gold = << >> /\ matched = ""

memRunVars == <<runVars, pred, gold, matched>>

MemSetSystemPrompt ==
    /\ pc = "unit_memory" /\ Len(log) <= MaxOps
    /\ \E p \in Prompts :
          /\ memory' = set_system_prompt(memory, p)
          /\ log' = Append(log, Call("set_system_prompt", "", p))
    /\ ret' = [NoRet EXCEPT !.op = "set_system_prompt"]
    /\ UNCHANGED <<pc, memRunVars>>

MemAddMessage ==
    /\ pc = "unit_memory" /\ Len(log) <= MaxOps
    /\ \E r \in Roles, c \in Contents :
          LET res == add_message(memory, r, c) IN
          /\ memory' = res.self
          /\ log' = Append(log, Call("add_message", r, c))
          /\ ret' = [NoRet EXCEPT !.op = "add_message", !.raised = res.raised]
    /\ UNCHANGED <<pc, memRunVars>>

MemClear ==
    /\ pc = "unit_memory" /\ Len(log) <= MaxOps
    /\ memory' = clear(memory)
    /\ log' = Append(log, Call("clear", "", << >>))
    /\ ret' = [NoRet EXCEPT !.op = "clear"]
    /\ UNCHANGED <<pc, memRunVars>>

MemGetHistory ==
    /\ pc = "unit_memory"
    /\ ret' = [NoRet EXCEPT !.op = "get_conversation_history",
                            !.history = get_conversation_history(memory)]
    /\ UNCHANGED <<pc, memory, log, memRunVars>>

MemLen ==
    /\ pc = "unit_memory"
    /\ ret' = [NoRet EXCEPT !.op = "__len__", !.n = __len__(memory)]
    /\ UNCHANGED <<pc, memory, log, memRunVars>>

MemNext ==
    \/ MemSetSystemPrompt
    \/ MemAddMessage
    \/ MemClear
    \/ MemGetHistory
    \/ MemLen

MemSpec == MemInit /\ [][MemNext]_vars

(***************************************************************************)
(* Unit harness of answers_match: both arguments are drawn from            *)
(* AnswerInputs and the function is called with the configured tolerances. *)
(***************************************************************************)
AnswerInputs ==
    { NoneV,
      Some(<< >>),
      Some(<<"a", "b", "c">>),
      Some(<<"0">>),
      Some(<<"7">>),
      Some(<<"-", "7">>),
      Some(<<" ", "7", ".", "0", " ">>),
      Some(<<"$", "1", "2", ".", "5">>),
      Some(<<"1", "2", ".", "5", "%">>),
      Some(<<"1", " ", "2">>),
      Some(<<"1", "0", "0", ".", "0">>),
      Some(<<"1", "0", "0", ".", "0", "5">>),
      Some(<<"1", "0", "0", ".", "2">>),
      Some(<<"9", "9", ".", "8", "5">>) }

MatchInit ==
    /\ pc = "unit_match"
    /\ pred \in AnswerInputs
    /\ gold \in AnswerInputs
    /\ matched = ""
    /\ memory = ConversationMemory(NoneV)
    /\ log = << >> /\ ret = NoRet
    /\ api_key_set = TRUE /\ prompt_file = TRUE /\ data = << >>
    /\ dialogues = << >> /\ dialogue_ids = << >> /\ k = 0
    /\ questions = << >> /\ gold_answers = << >> /\ i = 0
    /\ responses = << >>
    /\ results = EvaluationResults
    /\ exc = "" /\ prompt_loads = 0 /\ requests = << >> /\ outcomes = << >>

MatchCall ==
    /\ pc = "unit_match" /\ matched = ""
    /\ matched' = IF answers_match(pred, gold, relative_tolerance, absolute_tolerance)
                  THEN "True" ELSE "False"
    /\ UNCHANGED <<pc, memory, log, ret, runVars, pred, gold>>

MatchNext == MatchCall

MatchSpec == MatchInit /\ [][MatchNext]_vars

(***************************************************************************)
(* Unit harness of group_by_dialogue: the function is called on every list *)
(* of at most MaxRecords records whose ids are "a_0", "a", "b_1", "b_x"    *)
(* and "7" and whose turn indices are any of 0..MaxGroupTurnInd (repeated  *)
(* records and repeated turn indices included).  dialogues holds what it   *)
(* returned.                                                               *)
(***************************************************************************)
GroupIds ==
    { << <<"a">>, <<"0">> >>,
      << <<"a">> >>,
      << <<"b">>, <<"1">> >>,
      << <<"b">>, <<"x">> >>,
      << <<"7">> >> }

GroupRecord(id, t) ==
    [id |-> id,
     turn_ind |-> t,
     dialogue_break |-> [j \in 1..(MaxGroupTurnInd + 1) |-> <<"question", ToString(j - 1)>>],
     exe_ans |-> ExeAns(t),
     amt_table |-> <<"<table>">>]

GroupRecords == {GroupRecord(id, t) : id \in GroupIds, t \in 0..MaxGroupTurnInd}

GroupInputs == UNION {[1..n -> GroupRecords] : n \in 0..MaxRecords}

GroupInit ==
    /\ pc = "unit_group"
    /\ data \in GroupInputs
    /\ dialogues = << >> /\ dialogue_ids = << >> /\ k = 0
    /\ memory = ConversationMemory(NoneV)
    /\ log = << >> /\ ret = NoRet
    /\ api_key_set = TRUE /\ prompt_file = TRUE
    /\ questions = << >> /\ gold_answers = << >> /\ i = 0
    /\ responses = << >>
    /\ results = EvaluationResults
    /\ exc = "" /\ prompt_loads = 0 /\ requests = << >> /\ outcomes = << >>
    /\ pred = << >> /\ gold = << >> /\ matched = ""

GroupCall ==
    /\ pc = "unit_group" /\ ret.op = ""
    /\ dialogues' = group_by_dialogue(data)
    /\ ret' = [NoRet EXCEPT !.op = "group_by_dialogue"]
    /\ UNCHANGED <<pc, api_key_set, prompt_file, data, dialogue_ids, k, questions,
                   gold_answers, i, memory, responses, results, exc, prompt_loads,
                   requests, outcomes, log, pred, gold, matched>>

GroupNext == GroupCall

GroupSpec == GroupInit /\ [][GroupNext]_vars

(***************************************************************************)
(* The run together with the memory harness: a behaviour is a run of the   *)
(* program or a sequence of calls on one memory object.                    *)
(***************************************************************************)
LeakInit == Init \/ MemInit

LeakNext == Next \/ MemNext

LeakSpec == LeakInit /\ [][LeakNext]_vars

(***************************************************************************)
(* What the claims speak of.                                               *)
(***************************************************************************)
\* the LLM call of a turn failed, or its reply is empty or is not JSON
IsErrorTurn(outcome) ==
    \/ outcome.kind = "raise"
    \/ outcome.text = << >>
    \/ parse_llm_response(outcome.text).raised # ""

\* the answer of a parsed reply: result.get("answer", "")
ParsedAnswer(outcome) ==
    IF parse_llm_response(outcome.text).value.has_answer
    THEN parse_llm_response(outcome.text).value.answer
    ELSE Some(<< >>)

\* an entry {"error": <message>} and nothing else
IsErrorMarker(r) == r.type = "object" /\ r.has_error /\ ~r.has_answer /\ r.err # << >>

\* the system prompt of the dialogue the for loop of evaluate is at
CurrentSystemPrompt ==
    build_system_prompt(TRUE, extract_document_context(DialogueTurns(dialogue_ids[k])[1])).value

SystemMessage(text) == [role |-> "system", content |-> text]
UserMessage(question) == [role |-> "user", content |-> question_text(question)]

\* the calls of the harness since the last clear (all of them when there is none)
SinceClear ==
    LET clears == {j \in 1..Len(log) : log[j].op = "clear"}
        last == IF clears = {} THEN 0 ELSE CHOOSE j \in clears : \A m \in clears : m <= j
    IN SubSeq(log, last + 1, Len(log))

\* the messages the add_message calls with a valid role appended, in call order
AppendedSinceClear ==
    LET adds == SelectSeq(SinceClear,
                          LAMBDA c : c.op = "add_message" /\
                                     c.role \in {"user", "assistant", "system"})
    IN [j \in 1..Len(adds) |-> [role |-> adds[j].role, content |-> adds[j].content]]

\* the calls that set a system prompt: set_system_prompt, the constructor given one
PromptCallsSinceClear ==
    SelectSeq(SinceClear,
              LAMBDA c : c.op = "set_system_prompt" \/ (c.op = "__init__" /\ c.role = "str"))

PromptIsSet == PromptCallsSinceClear # << >>

LastPromptSet == PromptCallsSinceClear[Len(PromptCallsSinceClear)].content

(***************************************************************************)
(* C1: in process_dialogue every turn, whatever the LLM call did, records  *)
(* exactly one entry (the parsed reply, or an error marker) and appends    *)
(* exactly one assistant message: after i turns there are i responses,     *)
(* entry j is that of question j, and the memory holds i user and i        *)
(* assistant messages, alternating.                                        *)
(***************************************************************************)
C1_OneEntryPerTurn ==
    pc = "turn" =>
        /\ Len(responses) = i
        /\ Len(memory.messages) = 2 * i
        /\ \A j \in 1..i :
              /\ memory.messages[2 * j - 1] = UserMessage(questions[j])
              /\ memory.messages[2 * j].role = "assistant"
              /\ IF IsErrorTurn(outcomes[j])
                 THEN IsErrorMarker(responses[j])
                 ELSE responses[j] = parse_llm_response(outcomes[j].text).value

(***************************************************************************)
(* C2: per-turn parsing and call errors never end a dialogue or the run    *)
(* early: only an initialization error ends the run with an exception,     *)
(* every question of a processed dialogue has been submitted when its      *)
(* processing returns, and at the final-results step every selected        *)
(* dialogue has its summary record.                                        *)
(***************************************************************************)
C2_NoEarlyTermination ==
    /\ pc = "raised" => exc \in {"RuntimeError", "FileNotFoundError"}
    /\ pc = "score" => Len(requests) = Len(questions)
    /\ pc = "done" =>
          /\ Len(results.dialogue_results) = Len(dialogue_ids)
          /\ \A j \in 1..Len(dialogue_ids) :
                results.dialogue_results[j].dialogue_id = dialogue_ids[j]

(***************************************************************************)
(* C3: the record of a dialogue of n turns has total = n, errors = the     *)
(* number of turns whose reply could not be parsed or whose call failed,   *)
(* correct = the number of the other turns whose parsed answer matches the *)
(* turn's gold answer, and accuracy = correct / total.                     *)
(***************************************************************************)
C3_DialogueResult ==
    (pc = "dialogue" /\ k > 1) =>
        LET rec == results.dialogue_results[Len(results.dialogue_results)]
            n == Len(questions)
            errorTurns == {j \in 1..n : IsErrorTurn(outcomes[j])}
            correctTurns == {j \in (1..n) \ errorTurns :
                                answers_match(ParsedAnswer(outcomes[j]), gold_answers[j],
                                              relative_tolerance, absolute_tolerance)}
        IN /\ rec.total = n
           /\ rec.errors = Cardinality(errorTurns)
           /\ rec.correct = Cardinality(correctTurns)
           /\ rec.accuracy.num * rec.total = rec.correct * rec.accuracy.den

(***************************************************************************)
(* C4: within a dialogue the LLM is invoked once per question, in question *)
(* order; the request for question q is the dialogue's system prompt, then *)
(* the messages of questions 1..q-1 in the order they were appended (the   *)
(* previous request followed by the assistant messages of question q-1),   *)
(* then the user message of question q.                                    *)
(***************************************************************************)
C4_RequestPerQuestion ==
    pc \in {"turn", "score"} =>
        /\ Len(requests) = i
        /\ pc = "score" => i = Len(questions)
        /\ \A q \in 1..Len(requests) :
              LET r == requests[q]
                  before == IF q = 1 THEN <<SystemMessage(CurrentSystemPrompt)>>
                            ELSE requests[q - 1]
              IN /\ Len(r) >= Len(before) + 1
                 /\ r[1] = SystemMessage(CurrentSystemPrompt)
                 /\ SubSeq(r, 1, Len(before)) = before
                 /\ r[Len(r)] = UserMessage(questions[q])
                 /\ \A j \in (Len(before) + 1)..(Len(r) - 1) : r[j].role = "assistant"
                 /\ IF q = 1 THEN Len(r) = 2 ELSE Len(r) >= Len(before) + 2
                 /\ pc = "turn" => \A j \in 2..Len(r) : r[j] = memory.messages[j - 1]

C4_Witness ==
    /\ pc = "score"
    /\ Len(requests) = 2
    /\ Len(requests[2]) >= 4

(***************************************************************************)
(* C5: no conversation state crosses a dialogue boundary: clear() puts a   *)
(* memory back into its initial empty state (no messages, no system        *)
(* prompt) after any sequence of calls, and the first request of every     *)
(* dialogue is that dialogue's system prompt and its first question only.  *)
(***************************************************************************)
C5_NoCrossDialogueState ==
    /\ (pc = "unit_memory" /\ log[Len(log)].op = "clear") => memory = ConversationMemory(NoneV)
    /\ pc = "score" => memory = ConversationMemory(NoneV)
    /\ (pc \in {"turn", "score"} /\ Len(requests) >= 1) =>
          requests[1] = <<SystemMessage(CurrentSystemPrompt), UserMessage(questions[1])>>

C5_Witness ==
    /\ pc = "turn"
    /\ k = 2
    /\ Len(requests) = 1
    /\ results.total_questions >= 1

(***************************************************************************)
(* C6: add_message with a role in {user, assistant, system} appends one    *)
(* record with that role and content at the end of the message log; with   *)
(* any other role it fails with the invalid-role error and leaves the      *)
(* message log and the system prompt unchanged.                            *)
(***************************************************************************)
C6_AddMessage ==
    [][ret'.op = "add_message" =>
          LET c == log'[Len(log')]
          IN IF c.role \in {"user", "assistant", "system"}
             THEN /\ ret'.raised = ""
                  /\ memory'.messages =
                        Append(memory.messages, [role |-> c.role, content |-> c.content])
                  /\ memory'.system_prompt = memory.system_prompt
             ELSE /\ ret'.raised = "ValueError"
                  /\ memory' = memory]_vars

C6_Witness ==
    /\ ret.op = "add_message"
    /\ ret.raised = "ValueError"
    /\ Len(memory.messages) = 2
    /\ memory.system_prompt.some

(***************************************************************************)
(* C7 as claimed: whenever a system prompt has been set and not cleared    *)
(* since, get_conversation_history returns it first, with the text set     *)
(* last, followed by all appended messages in insertion order.             *)
(***************************************************************************)
C7_PromptFirstWhenSet ==
    (ret.op = "get_conversation_history" /\ PromptIsSet) =>
        ret.history = <<SystemMessage(LastPromptSet)>> \o AppendedSinceClear

(***************************************************************************)
(* C7 as amended: whenever the system prompt set last (and not cleared     *)
(* since) is not the empty string, get_conversation_history returns it     *)
(* first, followed by all appended messages in insertion order; an empty   *)
(* prompt is left out and the appended messages are returned alone.        *)
(***************************************************************************)
C7_NonEmptyPromptFirst ==
    (ret.op = "get_conversation_history" /\ PromptIsSet) =>
        IF LastPromptSet # << >>
        THEN ret.history = <<SystemMessage(LastPromptSet)>> \o AppendedSinceClear
        ELSE ret.history = AppendedSinceClear

C7_Witness ==
    /\ ret.op = "get_conversation_history"
    /\ Len(log) = 4
    /\ log[2].op = "add_message" /\ log[2].role = "system"
    /\ log[3].op = "set_system_prompt" /\ log[3].content = <<"P1">>
    /\ log[4].op = "set_system_prompt" /\ log[4].content = <<"P2">>
    /\ Len(ret.history) = 2

(***************************************************************************)
(* C8 as claimed: the size of a memory (len) is the count of non-system    *)
(* messages appended since creation or the last clear.                     *)
(***************************************************************************)
C8_LenCountsNonSystem ==
    ret.op = "__len__" =>
        ret.n = Len(SelectSeq(AppendedSinceClear, LAMBDA m : m.role # "system"))

(***************************************************************************)
(* C8 as amended: the size of a memory (len) is the count of messages      *)
(* appended by add_message since creation or the last clear, those of role *)
(* system included; the system prompt set by set_system_prompt or the      *)
(* constructor is not counted.                                             *)
(***************************************************************************)
C8_LenCountsAppended ==
    ret.op = "__len__" => ret.n = Len(AppendedSinceClear)

C8_Witness ==
    /\ ret.op = "__len__"
    /\ ret.n = 2
    /\ memory.system_prompt.some
    /\ \E j \in 1..Len(memory.messages) : memory.messages[j].role = "system"

(***************************************************************************)
(* C9: the results change only by additive accumulation: the running       *)
(* totals never decrease, the per-dialogue records only grow, by one       *)
(* record per call in call order, and each total is the sum of its field   *)
(* over the records.                                                       *)
(***************************************************************************)
RECURSIVE SumField(_, _)
SumField(recs, f) ==
    IF recs = << >> THEN 0 ELSE recs[Len(recs)][f] + SumField(SubSeq(recs, 1, Len(recs) - 1), f)

C9_TotalsAreSums ==
    /\ results.total_correct = SumField(results.dialogue_results, "correct")
    /\ results.total_questions = SumField(results.dialogue_results, "total")
    /\ results.total_errors = SumField(results.dialogue_results, "errors")

C9_Grows ==
    /\ results'.total_correct >= results.total_correct
    /\ results'.total_questions >= results.total_questions
    /\ results'.total_errors >= results.total_errors
    /\ \/ results'.dialogue_results = results.dialogue_results
       \/ /\ Len(results'.dialogue_results) = Len(results.dialogue_results) + 1
          /\ SubSeq(results'.dialogue_results, 1, Len(results.dialogue_results))
                = results.dialogue_results
          /\ results'.dialogue_results[Len(results'.dialogue_results)].dialogue_id
                = dialogue_ids[Len(results'.dialogue_results)]

C9_AdditiveAccumulation == [](C9_TotalsAreSums) /\ [][C9_Grows]_vars

C9_Witness ==
    /\ Len(results.dialogue_results) = 2
    /\ results.total_correct >= 1
    /\ results.total_errors >= 1
    /\ results.dialogue_results[1].errors >= 1

(***************************************************************************)
(* C10 as claimed: answers_match(100.0, 100.05) with relative tolerance    *)
(* 1e-3 and absolute tolerance 1e-4 returns false.                         *)
(***************************************************************************)
C10_Inputs ==
    /\ pc = "unit_match"
    /\ pred = Some(<<"1", "0", "0", ".", "0">>)
    /\ gold = Some(<<"1", "0", "0", ".", "0", "5">>)
    /\ matched # ""

C10_ReturnsFalse == C10_Inputs => matched = "False"

(***************************************************************************)
(* C10 as amended: answers_match(100.0, 100.05) with relative tolerance    *)
(* 1e-3 and absolute tolerance 1e-4 returns true: the absolute difference  *)
(* 0.05 exceeds 1e-4, but the relative difference 0.05 / 100.05 is within  *)
(* 1e-3, and either suffices.                                              *)
(***************************************************************************)
C10_ReturnsTrue == C10_Inputs => matched = "True"

C10_Witness == C10_Inputs

(***************************************************************************)
(* C11 as claimed: when the system prompt resource or the API credential   *)
(* is missing, the run aborts with an error before any dialogue starts     *)
(* processing (it never completes, no dialogue is entered, no LLM call is  *)
(* made), and the prompt resource is loaded once per process.              *)
(***************************************************************************)
C11_InRun == pc \in {"main", "evaluate", "dialogue", "turn", "score", "done", "raised"}

\* evaluate_dialogue has been entered: it has extracted the questions of a dialogue
C11_DialogueEntered == questions # << >> \/ pc \in {"turn", "score"}

C11_FatalBeforeAnyDialogue ==
    C11_InRun =>
        /\ (~api_key_set \/ ~prompt_file) =>
               /\ pc # "done"
               /\ ~C11_DialogueEntered
               /\ requests = << >>
        /\ prompt_loads <= 1

(***************************************************************************)
(* C11 as amended: a missing API credential aborts the run in main with a  *)
(* RuntimeError before the dataset is loaded: no dialogue is entered, the  *)
(* prompt is not loaded and no LLM call is made.  A missing system prompt  *)
(* resource surfaces when the first dialogue is set up: the run aborts     *)
(* with FileNotFoundError inside that dialogue, before any LLM call and    *)
(* before any dialogue record is added; over a dataset without dialogues   *)
(* it loads no prompt and completes without error.  The prompt resource is *)
(* loaded once per dialogue processed.                                     *)
(***************************************************************************)
\* the dialogues evaluate_dialogue has been called for
C11_DialoguesBegun ==
    CASE pc \in {"main", "evaluate"} -> 0
      [] pc \in {"dialogue", "done"} -> k - 1
      [] pc \in {"turn", "score"} -> k
      [] pc = "raised" -> k

C11_InitErrorsAbort ==
    C11_InRun =>
        /\ ~api_key_set =>
               /\ pc \in {"main", "raised"}
               /\ pc = "raised" => exc = "RuntimeError"
               /\ dialogues = << >> /\ ~C11_DialogueEntered
               /\ prompt_loads = 0 /\ requests = << >>
        /\ (api_key_set /\ ~prompt_file) =>
               /\ pc \notin {"turn", "score"}
               /\ requests = << >> /\ outcomes = << >>
               /\ results.dialogue_results = << >>
               /\ pc = "raised" =>
                      /\ exc = "FileNotFoundError"
                      /\ k = 1 /\ C11_DialogueEntered
               /\ pc = "done" => data = << >> /\ prompt_loads = 0
        /\ prompt_loads = C11_DialoguesBegun

C11_Witness ==
    /\ pc = "raised" /\ exc = "FileNotFoundError"
    /\ api_key_set /\ ~prompt_file
    /\ Len(dialogue_ids) = 2 /\ prompt_loads = 1

(***************************************************************************)
(* C12: group_by_dialogue puts every input record in exactly one group,    *)
(* the group of its extracted dialogue id; the groups appear in the order  *)
(* their id first occurs in the input; within each group the records are   *)
(* in ascending order of turn index (turn indices 2, 0, 1 of one id come   *)
(* out as 0, 1, 2).                                                        *)
(***************************************************************************)
C12_Returned == pc = "unit_group" /\ ret.op = "group_by_dialogue"

\* how many times the record r occurs in the list s
C12_Count(s, r) == Cardinality({j \in 1..Len(s) : s[j] = r})

\* the first position of the input whose record belongs to the dialogue id
C12_FirstIndex(id) ==
    CHOOSE j \in 1..Len(data) :
        /\ extract_dialogue_id(data[j].id) = id
        /\ \A l \in 1..(j - 1) : extract_dialogue_id(data[l].id) # id

C12_TurnInds(s) == [j \in 1..Len(s) |-> s[j].turn_ind]

C12_GroupByDialogue ==
    C12_Returned =>
        /\ \A x, y \in 1..Len(dialogues) : x # y => dialogues[x].id # dialogues[y].id
        /\ \A j \in 1..Len(data) :
               \E x \in 1..Len(dialogues) : dialogues[x].id = extract_dialogue_id(data[j].id)
        /\ \A x \in 1..Len(dialogues) :
               /\ dialogues[x].turns # << >>
               /\ \A r \in GroupRecords :
                      C12_Count(dialogues[x].turns, r) =
                          IF extract_dialogue_id(r.id) = dialogues[x].id
                          THEN C12_Count(data, r) ELSE 0
               /\ \A j \in 1..(Len(dialogues[x].turns) - 1) :
                      dialogues[x].turns[j].turn_ind <= dialogues[x].turns[j + 1].turn_ind
        /\ \A x, y \in 1..Len(dialogues) :
               x < y => C12_FirstIndex(dialogues[x].id) < C12_FirstIndex(dialogues[y].id)
        /\ (C12_TurnInds(data) = <<2, 0, 1>> /\ Len(dialogues) = 1) =>
               C12_TurnInds(dialogues[1].turns) = <<0, 1, 2>>

\* turn indices 2, 0, 1 of the dialogue "a" (ids "a_0" and "a"), grouped
C12_Witness ==
    /\ C12_Returned
    /\ C12_TurnInds(data) = <<2, 0, 1>>
    /\ Len(dialogues) = 1 /\ dialogues[1].id = << <<"a">> >>
    /\ data[1].id # data[2].id

(***************************************************************************)
(* C13: in every reachable state of a run, each per-dialogue record has    *)
(* total >= 1 and correct + errors <= total, and the running totals have   *)
(* total_correct + total_errors <= total_questions: no accuracy is a       *)
(* division by zero, and every reported accuracy lies between 0 and 1.     *)
(***************************************************************************)
\* the fraction is a quotient actually computed (den > 0), between 0 and 1
C13_UnitFraction(f, num, den) ==
    /\ den >= 1
    /\ f = [num |-> num, den |-> den]
    /\ 0 <= f.num /\ f.num <= f.den

C13_RecordInvariants ==
    /\ \A j \in 1..Len(results.dialogue_results) :
          LET rec == results.dialogue_results[j]
          IN /\ rec.total >= 1
             /\ rec.correct >= 0 /\ rec.errors >= 0
             /\ rec.correct + rec.errors <= rec.total
             /\ C13_UnitFraction(rec.accuracy, rec.correct, rec.total)
    /\ results.total_correct >= 0 /\ results.total_errors >= 0
    /\ results.total_correct + results.total_errors <= results.total_questions
    /\ exc # "ZeroDivisionError"
    /\ accuracy(results).den >= 1
    /\ 0 <= accuracy(results).num /\ accuracy(results).num <= accuracy(results).den
    /\ results.total_questions > 0 =>
          C13_UnitFraction(accuracy(results), results.total_correct, results.total_questions)

\* a dialogue recorded with more response entries than questions, every turn an error
C13_Witness ==
    /\ pc \in {"dialogue", "done"}
    /\ results.dialogue_results # << >>
    /\ Len(responses) > Len(gold_answers)
    /\ LET rec == results.dialogue_results[Len(results.dialogue_results)]
       IN rec.total = 2 /\ rec.errors = 2 /\ rec.correct = 0

====
